---- MODULE Spec2Model ----
(***************************************************************************)
(* Model of roma_blackbox.wrapper.BlackBoxWrapper: one wrapper, its policy, *)
(* and invocations of run() with the Storage, Metrics, redactor, agent and  *)
(* attestation collaborators.  Each action is one stretch of run() between  *)
(* two suspension points (the awaits on agent.run and store_outcome).       *)
(***************************************************************************)
EXTENDS Integers, Sequences, FiniteSets, TLC

VARIABLES policy, use_enhanced_pii, agent, frame, outcome,
          store_calls, metrics_calls, agent_calls, attest_calls

vars == <<policy, use_enhanced_pii, agent, frame, outcome,
          store_calls, metrics_calls, agent_calls, attest_calls>>

----------------------------------------------------------------------------
(* Bounds *)

\* latency_ms is a clock difference: any value in 0..MaxLatency
MaxLatency == 1

----------------------------------------------------------------------------
(* Python values: every value carries its type, as isinstance sees it.     *)
(* A string is a sequence of words; a word is the unit the PII patterns    *)
(* match.                                                                  *)

None == [ty |-> "none", v |-> 0]
Str(s) == [ty |-> "str", v |-> s]
Num(n) == [ty |-> "num", v |-> n]
Bool(b) == [ty |-> "bool", v |-> b]
List(l) == [ty |-> "list", v |-> l]

\* the order in which the dict literals of run() and of its collaborators
\* insert their keys
KeyOrder ==
    <<"task", "payload", "email", "city", "result", "traces", "cost_cents", "error",
      "request_id", "input_hash", "output_hash", "enabled", "reason", "timestamp",
      "code_sha", "policy_hash", "break_glass">>

\* a dict holds its keys in insertion order: ord is that order, v the mapping
DictInOrder(m, ord) == [ty |-> "dict", v |-> m, ord |-> ord]

\* a dict whose keys were inserted in the order of KeyOrder
Dict(m) == DictInOrder(m, SelectSeq(KeyOrder, LAMBDA k : k \in DOMAIN m))

EmptyMap == [k \in {} |-> None]

Restrict(m, K) == [k \in (DOMAIN m) \cap K |-> m[k]]

\* dict.get(key, default)
Get(d, key, default) == IF key \in DOMAIN d.v THEN d.v[key] ELSE default

\* isinstance(x, dict)
IsDict(x) == x.ty = "dict"

RECURSIVE Concat(_)
Concat(ss) == IF ss = <<>> THEN <<>> ELSE Head(ss) \o Concat(Tail(ss))

\* a == b as Python evaluates it: two dicts are equal when they map the same
\* keys to equal values, whatever the order of insertion
RECURSIVE PyEq(_, _)
PyEq(a, b) ==
    /\ a.ty = b.ty
    /\ CASE a.ty = "dict" ->
               /\ DOMAIN a.v = DOMAIN b.v
               /\ \A k \in DOMAIN a.v : PyEq(a.v[k], b.v[k])
         [] a.ty = "list" ->
               /\ Len(a.v) = Len(b.v)
               /\ \A k \in DOMAIN a.v : PyEq(a.v[k], b.v[k])
         [] OTHER -> a.v = b.v

\* str(data): the words of the printed value; a dict prints its items in
\* insertion order
RECURSIVE PyStr(_)
PyStr(x) ==
    CASE x.ty = "str" -> x.v
      [] x.ty = "num" -> <<ToString(x.v)>>
      [] x.ty = "bool" -> <<IF x.v THEN "True" ELSE "False">>
      [] x.ty = "none" -> <<"None">>
      [] x.ty = "list" ->
           <<"[">> \o Concat([i \in DOMAIN x.v |-> <<"'">> \o PyStr(x.v[i]) \o <<"'">>]) \o <<"]">>
      [] x.ty = "dict" ->
           LET ks == x.ord
           IN  <<"{">> \o Concat([i \in DOMAIN ks |-> <<ks[i], ":">> \o PyStr(x.v[ks[i]])]) \o <<"}">>
      [] OTHER -> <<"?">>

\* hashlib.sha256(s).hexdigest(): a digest, taken as collision free
Sha256Hex(s) == [ty |-> "sha256", v |-> s]

_compute_hash(data) == Sha256Hex(PyStr(data))

----------------------------------------------------------------------------
(* The PII redactor (pii_patterns.EnhancedPIIRedactor, filters.PIIRedactor) *)

\* an e-mail address and a phone number: the words the catalogue's rules match
PIIWords == {"a@b.com", "555-0100"}

\* the marker token of the matching rule's PII type
Marker(w) == IF w = "a@b.com" THEN "[EMAIL_REDACTED]" ELSE "[PHONE_REDACTED]"

RedactStr(s) == [i \in DOMAIN s |-> IF s[i] \in PIIWords THEN Marker(s[i]) ELSE s[i]]

RECURSIVE redact(_)
redact(x) ==
    CASE x.ty = "str" -> Str(RedactStr(x.v))
      [] x.ty = "list" -> List([i \in DOMAIN x.v |-> redact(x.v[i])])
      [] x.ty = "dict" -> DictInOrder([k \in DOMAIN x.v |-> redact(x.v[k])], x.ord)
      [] OTHER -> x

\* whether a value holds a raw PII word
RECURSIVE HasPII(_)
HasPII(x) ==
    CASE x.ty = "str" -> \E i \in DOMAIN x.v : x.v[i] \in PIIWords
      [] x.ty = "list" -> \E i \in DOMAIN x.v : HasPII(x.v[i])
      [] x.ty = "dict" -> \E k \in DOMAIN x.v : HasPII(x.v[k])
      [] OTHER -> FALSE

----------------------------------------------------------------------------
(* The inputs of run() and the wrapper's configuration *)

RequestIds == {"r1", "r2"}

\* Policy.break_glass_request_ids: one identifier listed, so that requests of
\* both kinds exist (with the empty default every request is as "r2" is here)
BreakGlassSets == {{"r1"}}

Policies ==
    [black_box : BOOLEAN, keep_hashes : BOOLEAN, include_code_sha : BOOLEAN,
     include_policy_hash : BOOLEAN, break_glass_request_ids : BreakGlassSets]

Tasks == {<<"hello">>, <<"call", "555-0100">>}

\* payload: Optional[Dict]; None becomes {} (line 79)
Payloads == {None, Dict("email" :> Str(<<"a@b.com">>))}

\* **kwargs: extra keyword parameters, with keys other than the payload's
Kwargs == {EmptyMap, "city" :> Str(<<"paris">>)}

Latencies == 0 .. MaxLatency

\* datetime.now(UTC).isoformat(): the clock's reading, one opaque value
Now == Str(<<"now">>)

----------------------------------------------------------------------------
(* Exceptions.  CancelledError stands for the exceptions that derive from   *)
(* BaseException only, which "except Exception" does not catch.             *)

Exc(type, msg) == [type |-> type, msg |-> msg]

NoExc == Exc("none", <<>>)

\* the classes "except Exception" (line 152) catches
ExceptionSubclasses == {"TypeError", "ValueError", "AttributeError", "RuntimeError"}

----------------------------------------------------------------------------
(* The wrapped agent: what one call of agent.run may do *)

FullReturn ==
    "result" :> Str(<<"to", "a@b.com">>) @@
    "traces" :> List(<<Str(<<"step1">>), Str(<<"step2">>)>>) @@
    "cost_cents" :> Num(3)

\* the mapping {cost_cents, traces} built in the other order of insertion
CostThenTraces ==
    DictInOrder(Restrict(FullReturn, {"traces", "cost_cents"}), <<"cost_cents", "traces">>)

\* a plain value, or a mapping with any of the keys result, traces, cost_cents
AgentReturns ==
    {Str(<<"ok">>), CostThenTraces}
    \cup {Dict(Restrict(FullReturn, K)) : K \in SUBSET (DOMAIN FullReturn)}

\* the TypeError Python raises at the call when run() does not take the
\* arguments of line 92
ShapeRejected == Exc("TypeError", <<"unexpected", "keyword", "argument">>)

\* a TypeError raised inside the agent's run(), its arguments accepted
OwnTypeError == Exc("TypeError", <<"unsupported", "operand">>)

\* what an agent call raises: a rejection of the parameter shape, a TypeError
\* of its own, a failure whose description quotes the arguments the agent
\* received, a cancellation
AgentRaises(task, kw) ==
    {ShapeRejected,
     OwnTypeError,
     Exc("ValueError", <<"bad", "input">> \o task \o PyStr(Dict(kw))),
     Exc("CancelledError", <<>>)}

AgentBehaviours(task, kw) ==
    {[kind |-> "return", value |-> r, exc |-> NoExc] : r \in AgentReturns}
    \cup {[kind |-> "raise", value |-> None, exc |-> e] : e \in AgentRaises(task, kw)}

----------------------------------------------------------------------------
(* The attestation generator (attestation.AttestationGenerator.generate)   *)

CodeSha == Str(<<"fake_sha_for_demo">>)

PolicyHash(p) == [ty |-> "sha256", v |-> p]

generate(p, request_id, input_hash, output_hash) ==
    Dict(("request_id" :> Str(<<request_id>>)) @@
         ("input_hash" :> input_hash) @@
         ("output_hash" :> output_hash) @@
         ("timestamp" :> Now) @@
         (IF p.include_code_sha THEN "code_sha" :> CodeSha ELSE EmptyMap) @@
         (IF p.include_policy_hash THEN "policy_hash" :> PolicyHash(p) ELSE EmptyMap))

----------------------------------------------------------------------------
(* The collaborators' failures *)

MetricsDown == Exc("RuntimeError", <<"metrics", "down">>)
StorageDown == Exc("RuntimeError", <<"storage", "down">>)
RedactionFailed == Exc("ValueError", <<"unsupported", "value">>)
AttestationFailed == Exc("RuntimeError", <<"attestation", "failed">>)

\* lines 90, 95-96 left out: the AttributeError of the attribute access itself
NoRunAttribute == Exc("AttributeError", <<"object", "has", "no", "attribute", "run">>)

\* raise AttributeError(f"Agent {type(self.agent)} has no run() method")
NoRunMethod == Exc("AttributeError", <<"Agent", "has", "no", "run()", "method">>)

----------------------------------------------------------------------------
(* run(): its locals, its result and the calls it makes *)

Invocations == {"run1"}

IdleFrame ==
    [pc |-> "idle", request_id |-> "", task |-> <<>>, payload |-> Dict(EmptyMap),
     kwargs |-> EmptyMap, is_break_glass |-> FALSE, input_hash |-> None,
     agent_result |-> None, result |-> None, traces |-> None, cost_cents |-> Num(0),
     output_hash |-> None, latency_ms |-> 0, e |-> NoExc]

BlackBoxResult(request_id, status, result, traces, latency_ms, cost_cents, input_hash, output_hash, attestation) ==
    [request_id |-> request_id, status |-> status, result |-> result, traces |-> traces,
     latency_ms |-> latency_ms, cost_cents |-> cost_cents, input_hash |-> input_hash,
     output_hash |-> output_hash, attestation |-> attestation]

NoResult == BlackBoxResult("", "none", None, None, 0, Num(0), None, None, None)

Pending == [kind |-> "pending", result |-> NoResult, exc |-> NoExc]

\* payload = payload or {}
PayloadOrEmpty(p) == IF p = None \/ (IsDict(p) /\ DOMAIN p.v = {}) THEN Dict(EmptyMap) ELSE p

_parse_agent_result(agent_result) ==
    IF IsDict(agent_result)
    THEN [result |-> Get(agent_result, "result", agent_result),
          traces |-> Get(agent_result, "traces", None),
          cost_cents |-> Get(agent_result, "cost_cents", Num(0))]
    ELSE [result |-> agent_result, traces |-> None, cost_cents |-> Num(0)]

MCall(i, op, args, ok) == [inv |-> i, op |-> op, args |-> args, raised |-> ~ok]

InitOf(I) ==
    /\ policy \in Policies
    /\ use_enhanced_pii \in BOOLEAN
    /\ agent \in [has_run : BOOLEAN]
    /\ frame = [i \in I |-> IdleFrame]
    /\ outcome = [i \in I |-> Pending]
    /\ store_calls = <<>>
    /\ metrics_calls = <<>>
    /\ agent_calls = <<>>
    /\ attest_calls = <<>>

Init == InitOf(Invocations)

\* return BlackBoxResult(...)
Return(i, f, r) ==
    /\ frame' = [frame EXCEPT ![i] = [f EXCEPT !.pc = "done"]]
    /\ outcome' = [outcome EXCEPT ![i] = [kind |-> "returned", result |-> r, exc |-> NoExc]]

\* an exception leaves run()
Escapes(i, f, exc) ==
    /\ frame' = [frame EXCEPT ![i] = [f EXCEPT !.pc = "done"]]
    /\ outcome' = [outcome EXCEPT ![i] = [kind |-> "raised", result |-> NoResult, exc |-> exc]]

\* except Exception as e: latency_ms, logger.error, up to the await of store_outcome
Handler(i, f, exc, lat) ==
    /\ frame' = [frame EXCEPT ![i] = [f EXCEPT !.pc = "await_store_error", !.e = exc,
                                               !.latency_ms = lat]]
    /\ UNCHANGED outcome

\* lines 86-152 without the except clause
RaisedInTryUncaught(i, f, exc, lat) == Escapes(i, f, exc)

\* an exception raised inside the try block (lines 86-150)
RaisedInTry(i, f, exc, lat) ==
    IF exc.type \in ExceptionSubclasses THEN Handler(i, f, exc, lat) ELSE Escapes(i, f, exc)

----------------------------------------------------------------------------
(* The steps of run(), as the code computes them *)

\* line 80 honouring the list under a black_box policy only
IsBreakGlassWhenBlackBox(request_id) ==
    policy.black_box /\ request_id \in policy.break_glass_request_ids

\* line 80
IsBreakGlass(request_id) == request_id \in policy.break_glass_request_ids

\* line 87: what the redactor is given
RedactorInput(task, payload) == Dict("task" :> Str(task) @@ "payload" :> payload)

\* line 88 without the keep_hashes test
InputHashAlways(redacted_input) == _compute_hash(redacted_input)

\* line 88
InputHash(redacted_input) == IF policy.keep_hashes THEN _compute_hash(redacted_input) ELSE None

\* line 92 handing the agent the redacted input
FirstCallArgsRedacted(f) ==
    [task |-> RedactStr(f.task), kwargs |-> redact(Dict(f.payload.v @@ f.kwargs))]

\* line 92: agent.run(task, **payload, **kwargs)
FirstCallArgs(f) == [task |-> f.task, kwargs |-> Dict(f.payload.v @@ f.kwargs)]

\* line 94: agent.run(task)
RetryCallArgs(f) == [task |-> f.task, kwargs |-> Dict(EmptyMap)]

\* line 100 with the "not" lost: strips exactly the break-glass requests
StripsTracesOnBreakGlass(is_break_glass) == policy.black_box /\ is_break_glass

\* line 100 without the break-glass test
StripsTracesAlways(is_break_glass) == policy.black_box

\* line 100
StripsTraces(is_break_glass) == policy.black_box /\ ~is_break_glass

\* line 104 moved below line 110: the hash of the result as returned
OutputHashAfterRedaction(result) ==
    IF policy.keep_hashes
    THEN _compute_hash(IF use_enhanced_pii THEN redact(result) ELSE result)
    ELSE None

\* line 104
OutputHash(result) == IF policy.keep_hashes THEN _compute_hash(result) ELSE None

\* lines 113-121 with run()'s locals kept on the wrapper, shared by its
\* invocations: the record of the invocation whose agent call came back last
SuccessRecordShared(f) ==
    LET g == frame[agent_calls[Len(agent_calls)].inv]
    IN  [request_id |-> g.request_id, status |-> "success", input_hash |-> g.input_hash,
         output_hash |-> g.output_hash, latency_ms |-> g.latency_ms,
         cost_cents |-> g.cost_cents, created_at |-> Now]

\* lines 113-121
SuccessRecord(f) ==
    [request_id |-> f.request_id, status |-> "success", input_hash |-> f.input_hash,
     output_hash |-> f.output_hash, latency_ms |-> f.latency_ms,
     cost_cents |-> f.cost_cents, created_at |-> Now]

\* lines 156-162
ErrorRecord(f) ==
    [request_id |-> f.request_id, status |-> "error", error |-> Str(f.e.msg),
     latency_ms |-> f.latency_ms, created_at |-> Now]

\* line 127 with "and" for "or"
WantsAttestationBoth == policy.include_code_sha /\ policy.include_policy_hash

\* line 127
WantsAttestation == policy.include_code_sha \/ policy.include_policy_hash

\* lines 133-138
BreakGlassNote ==
    Dict("enabled" :> Bool(TRUE) @@
         "reason" :> Str(<<"Request", "ID", "in", "break_glass_request_ids">>) @@
         "timestamp" :> Now)

\* lines 126-138, the generator having returned
Attestation(f) ==
    IF WantsAttestation
    THEN LET a == generate(policy, f.request_id, f.input_hash, f.output_hash)
         IN  IF f.is_break_glass THEN Dict(a.v @@ ("break_glass" :> BreakGlassNote)) ELSE a
    ELSE None

\* lines 140-150
SuccessResult(f, attestation) ==
    BlackBoxResult(f.request_id, "success", f.result, f.traces, f.latency_ms, f.cost_cents,
                   f.input_hash, f.output_hash, attestation)

\* lines 166-176 returning the hashes and the cost computed before the failure
ErrorResultKeepsHashes(f) ==
    BlackBoxResult(f.request_id, "error", Dict("error" :> Str(f.e.msg)), None, f.latency_ms,
                   f.cost_cents, f.input_hash, f.output_hash, Dict("error" :> Str(f.e.msg)))

\* lines 166-176
ErrorResult(f) ==
    BlackBoxResult(f.request_id, "error", Dict("error" :> Str(f.e.msg)), None, f.latency_ms,
                   Num(0), None, None, Dict("error" :> Str(f.e.msg)))

----------------------------------------------------------------------------
(* Actions: one per stretch of run() between suspension points *)

\* lines 78-96: entry, up to the await of agent.run
Enter(i) ==
    /\ frame[i].pc = "idle"
    /\ \E request_id \in RequestIds, task \in Tasks, p \in Payloads, kwargs \in Kwargs,
          bg_ok \in BOOLEAN, redact_ok \in BOOLEAN, lat \in Latencies :
         LET payload == PayloadOrEmpty(p)
             is_break_glass == IsBreakGlass(request_id)
             f0 == [frame[i] EXCEPT !.request_id = request_id, !.task = task,
                                    !.payload = payload, !.kwargs = kwargs,
                                    !.is_break_glass = is_break_glass]
             redacted_input == redact(RedactorInput(task, payload))
             f1 == [f0 EXCEPT !.input_hash = InputHash(redacted_input)]
         IN  /\ metrics_calls' =
                    IF is_break_glass
                    THEN Append(metrics_calls, MCall(i, "record_break_glass", <<>>, bg_ok))
                    ELSE metrics_calls
             /\ IF is_break_glass /\ ~bg_ok THEN Escapes(i, f0, MetricsDown)
                ELSE IF ~redact_ok THEN RaisedInTry(i, f0, RedactionFailed, lat)
                ELSE IF ~agent.has_run THEN RaisedInTry(i, f1, NoRunMethod, lat)
                ELSE /\ frame' = [frame EXCEPT ![i] = [f1 EXCEPT !.pc = "await_agent"]]
                     /\ UNCHANGED outcome
    /\ UNCHANGED <<policy, use_enhanced_pii, agent, store_calls, agent_calls, attest_calls>>

\* lines 98-112: the agent having returned, up to the await of store_outcome
AfterAgent(i, f, agent_result, strip_ok, redact_ok, lat, lat_e) ==
    LET parsed == _parse_agent_result(agent_result)
        strips == StripsTraces(f.is_break_glass)
        f1 == [f EXCEPT !.agent_result = agent_result, !.result = parsed.result,
                        !.traces = IF strips THEN None ELSE parsed.traces,
                        !.cost_cents = parsed.cost_cents]
        f2 == [f1 EXCEPT !.output_hash = OutputHash(parsed.result), !.latency_ms = lat]
        f3 == [f2 EXCEPT !.result = IF use_enhanced_pii THEN redact(parsed.result)
                                    ELSE parsed.result]
    IN  /\ metrics_calls' =
               IF strips
               THEN Append(metrics_calls, MCall(i, "record_trace_strip", <<>>, strip_ok))
               ELSE metrics_calls
        /\ IF strips /\ ~strip_ok THEN RaisedInTry(i, f1, MetricsDown, lat_e)
           ELSE IF use_enhanced_pii /\ ~redact_ok THEN RaisedInTry(i, f2, RedactionFailed, lat_e)
           ELSE /\ frame' = [frame EXCEPT ![i] = [f3 EXCEPT !.pc = "await_store_success"]]
                /\ UNCHANGED outcome

\* line 92: the first call of the agent completes
AgentFirst(i) ==
    /\ frame[i].pc = "await_agent"
    /\ LET f == frame[i]
           args == FirstCallArgs(f)
       IN  \E b \in AgentBehaviours(args.task, args.kwargs.v), strip_ok \in BOOLEAN,
              redact_ok \in BOOLEAN, lat \in Latencies, lat_e \in Latencies :
             /\ agent_calls' = Append(agent_calls, [inv |-> i, retry |-> FALSE, args |-> args, did |-> b])
             /\ IF b.kind = "return"
                THEN AfterAgent(i, f, b.value, strip_ok, redact_ok, lat, lat_e)
                ELSE IF b.exc.type = "TypeError"
                THEN /\ frame' = [frame EXCEPT ![i] = [f EXCEPT !.pc = "await_retry"]]
                     /\ UNCHANGED <<outcome, metrics_calls>>
                ELSE /\ RaisedInTry(i, f, b.exc, lat_e)
                     /\ UNCHANGED metrics_calls
    /\ UNCHANGED <<policy, use_enhanced_pii, agent, store_calls, attest_calls>>

\* line 94: the task-only retry completes
AgentRetry(i) ==
    /\ frame[i].pc = "await_retry"
    /\ LET f == frame[i]
           args == RetryCallArgs(f)
       IN  \E b \in AgentBehaviours(args.task, args.kwargs.v), strip_ok \in BOOLEAN,
              redact_ok \in BOOLEAN, lat \in Latencies, lat_e \in Latencies :
             /\ agent_calls' = Append(agent_calls, [inv |-> i, retry |-> TRUE, args |-> args, did |-> b])
             /\ IF b.kind = "return"
                THEN AfterAgent(i, f, b.value, strip_ok, redact_ok, lat, lat_e)
                ELSE /\ RaisedInTry(i, f, b.exc, lat_e)
                     /\ UNCHANGED metrics_calls
    /\ UNCHANGED <<policy, use_enhanced_pii, agent, store_calls, attest_calls>>

\* lines 112-150: the success-path store_outcome completes, up to the return
StoreSuccess(i) ==
    /\ frame[i].pc = "await_store_success"
    /\ LET f == frame[i]
       IN  \E store_ok \in BOOLEAN, metrics_ok \in BOOLEAN, attest_ok \in BOOLEAN,
              lat_e \in Latencies :
             /\ store_calls' = Append(store_calls, [inv |-> i, record |-> SuccessRecord(f), raised |-> ~store_ok])
             /\ metrics_calls' =
                    IF store_ok
                    THEN Append(metrics_calls,
                                MCall(i, "record_request", <<Str(<<"success">>), Num(f.latency_ms), f.cost_cents>>, metrics_ok))
                    ELSE metrics_calls
             /\ attest_calls' =
                    IF store_ok /\ metrics_ok /\ WantsAttestation
                    THEN Append(attest_calls,
                                [inv |-> i, request_id |-> f.request_id, input_hash |-> f.input_hash,
                                 output_hash |-> f.output_hash, raised |-> ~attest_ok])
                    ELSE attest_calls
             /\ IF ~store_ok THEN RaisedInTry(i, f, StorageDown, lat_e)
                ELSE IF ~metrics_ok THEN RaisedInTry(i, f, MetricsDown, lat_e)
                ELSE IF WantsAttestation /\ ~attest_ok THEN RaisedInTry(i, f, AttestationFailed, lat_e)
                ELSE Return(i, f, SuccessResult(f, Attestation(f)))
    /\ UNCHANGED <<policy, use_enhanced_pii, agent, agent_calls>>

\* lines 155-176: the failure-path store_outcome completes, up to the return
StoreError(i) ==
    /\ frame[i].pc = "await_store_error"
    /\ LET f == frame[i]
       IN  \E store_ok \in BOOLEAN, metrics_ok \in BOOLEAN :
             /\ store_calls' = Append(store_calls, [inv |-> i, record |-> ErrorRecord(f), raised |-> ~store_ok])
             /\ metrics_calls' =
                    IF store_ok
                    THEN Append(metrics_calls,
                                MCall(i, "record_request", <<Str(<<"error">>), Num(f.latency_ms), Num(0)>>, metrics_ok))
                    ELSE metrics_calls
             /\ IF ~store_ok THEN Escapes(i, f, StorageDown)
                ELSE IF ~metrics_ok THEN Escapes(i, f, MetricsDown)
                ELSE Return(i, f, ErrorResult(f))
    /\ UNCHANGED <<policy, use_enhanced_pii, agent, agent_calls, attest_calls>>

\* each step is taken by some invocation
EnterStep == \E i \in DOMAIN frame : Enter(i)
AgentFirstStep == \E i \in DOMAIN frame : AgentFirst(i)
AgentRetryStep == \E i \in DOMAIN frame : AgentRetry(i)
StoreSuccessStep == \E i \in DOMAIN frame : StoreSuccess(i)
StoreErrorStep == \E i \in DOMAIN frame : StoreError(i)

Next ==
    \/ EnterStep
    \/ AgentFirstStep
    \/ AgentRetryStep
    \/ StoreSuccessStep
    \/ StoreErrorStep

Spec == Init /\ [][Next]_vars

----------------------------------------------------------------------------
(* What an execution shows of one invocation i *)

Started(i) == frame[i].pc # "idle"
Done(i) == frame[i].pc = "done"
Returned(i) == outcome[i].kind = "returned"
Escaped(i) == outcome[i].kind = "raised"
ResultOf(i) == outcome[i].result

Range(s) == {s[k] : k \in DOMAIN s}

CallsOf(calls, i) == {k \in DOMAIN calls : calls[k].inv = i}

MetricsCount(i, op) == Cardinality({k \in CallsOf(metrics_calls, i) : metrics_calls[k].op = op})

MetricsRaised(i) == \E k \in CallsOf(metrics_calls, i) : metrics_calls[k].raised

StoreCount(i) == Cardinality(CallsOf(store_calls, i))

StoreRaised(i) == \E k \in CallsOf(store_calls, i) : store_calls[k].raised

AttestRaised(i) == \E k \in CallsOf(attest_calls, i) : attest_calls[k].raised

\* the last call of the agent that invocation i made (one exists)
LastAgentCall(i) == agent_calls[CHOOSE k \in CallsOf(agent_calls, i) : \A j \in CallsOf(agent_calls, i) : j <= k]

AgentCalled(i) == CallsOf(agent_calls, i) # {}

\* the agent handed a value back to run()
AgentReturned(i) == AgentCalled(i) /\ LastAgentCall(i).did.kind = "return"

\* some call of the agent raised
AgentRaised(i) == \E k \in CallsOf(agent_calls, i) : agent_calls[k].did.kind = "raise"

\* the traces in the value the agent returned: its traces entry, if it has one
TracesReturned(i) ==
    LET r == LastAgentCall(i).did.value
    IN  IF r.ty = "dict" /\ "traces" \in DOMAIN r.v THEN r.v["traces"] ELSE None

\* no collaborator other than the agent failed in invocation i
CollaboratorsHeld(i) ==
    /\ ~MetricsRaised(i) /\ ~StoreRaised(i) /\ ~AttestRaised(i)
    /\ frame[i].e # RedactionFailed

BlackBoxed(i) == policy.black_box /\ frame[i].request_id \notin policy.break_glass_request_ids

BreakGlassed(i) == policy.black_box /\ frame[i].request_id \in policy.break_glass_request_ids

----------------------------------------------------------------------------
(* Two invocations of run() on one wrapper, their steps interleaved at the   *)
(* awaits of agent.run and store_outcome.  The steps are those of Spec, kept *)
(* to a part of its inputs: the collaborators other than the agent do not    *)
(* fail, the clock does not advance, each invocation has its own request id, *)
(* and the agent returns a plain value or a two-key mapping or rejects the   *)
(* parameter shape.                                                          *)

PairInvocations == {"runA", "runB"}

PairRequestId == [i \in PairInvocations |-> IF i = "runA" THEN "r1" ELSE "r2"]

PairReturns ==
    {Str(<<"ok">>), Dict(Restrict(FullReturn, {"traces", "cost_cents"})), CostThenTraces}

PairScope ==
    /\ \A k \in DOMAIN metrics_calls : ~metrics_calls[k].raised
    /\ \A k \in DOMAIN store_calls : ~store_calls[k].raised
    /\ \A k \in DOMAIN attest_calls : ~attest_calls[k].raised
    /\ \A k \in DOMAIN agent_calls :
           \/ agent_calls[k].did.kind = "return" /\ agent_calls[k].did.value \in PairReturns
           \/ agent_calls[k].did.kind = "raise" /\ agent_calls[k].did.exc = ShapeRejected
    /\ \A i \in DOMAIN frame :
           /\ frame[i].latency_ms = 0
           /\ frame[i].e # RedactionFailed
           /\ Started(i) => frame[i].request_id = PairRequestId[i]

PairInit ==
    /\ InitOf(PairInvocations)
    /\ policy.black_box /\ policy.keep_hashes
    /\ policy.include_code_sha /\ ~policy.include_policy_hash
    /\ use_enhanced_pii
    /\ agent.has_run

PairEnter == EnterStep /\ PairScope'
PairAgentFirst == AgentFirstStep /\ PairScope'
PairAgentRetry == AgentRetryStep /\ PairScope'
PairStoreSuccess == StoreSuccessStep /\ PairScope'
PairStoreError == StoreErrorStep /\ PairScope'

PairNext ==
    \/ PairEnter
    \/ PairAgentFirst
    \/ PairAgentRetry
    \/ PairStoreSuccess
    \/ PairStoreError

PairSpec == PairInit /\ [][PairNext]_vars

----------------------------------------------------------------------------
(* C1: black-box suppression *)

\* C1 as stated: every result run returns for a black_box policy and a
\* request id outside break_glass_request_ids has no traces, and
\* record_trace_strip was called exactly once in the invocation, whatever the
\* agent did, an agent that raises included.  Taken where it is about the
\* agent alone: the agent was called and no other collaborator failed.
C1_StripOnceWhateverAgent ==
    \A i \in DOMAIN frame :
        (Returned(i) /\ BlackBoxed(i) /\ AgentCalled(i) /\ CollaboratorsHeld(i)) =>
            /\ ResultOf(i).traces = None
            /\ MetricsCount(i, "record_trace_strip") = 1

\* C1 amended: for a black_box policy and a request id outside
\* break_glass_request_ids every returned result has no traces;
\* record_trace_strip is called exactly once when the agent call returned a
\* value and not at all when the agent raised or was never reached.
C1_BlackBoxSuppression ==
    \A i \in DOMAIN frame :
        (Started(i) /\ BlackBoxed(i)) =>
            /\ Returned(i) => ResultOf(i).traces = None
            /\ MetricsCount(i, "record_trace_strip") = IF AgentReturned(i) THEN 1 ELSE 0

\* a success result whose agent returned traces, stripped, the strip counted
C1_Witness ==
    \E i \in DOMAIN frame :
        /\ Returned(i) /\ BlackBoxed(i) /\ AgentReturned(i)
        /\ TracesReturned(i) # None
        /\ ResultOf(i).status = "success"
        /\ ResultOf(i).traces = None
        /\ MetricsCount(i, "record_trace_strip") = 1

----------------------------------------------------------------------------
(* C2: break-glass exemption *)

HasBreakGlassNote(a) ==
    /\ a.ty = "dict"
    /\ "break_glass" \in DOMAIN a.v
    /\ a.v["break_glass"].ty = "dict"
    /\ "enabled" \in DOMAIN a.v["break_glass"].v
    /\ a.v["break_glass"].v["enabled"] = Bool(TRUE)

\* C2 as stated: every result run returns for a black_box policy and a
\* request id in break_glass_request_ids carries the traces the agent
\* returned, and its attestation, when not absent, has break_glass.enabled
\* = true.  Taken where the agent was called and no other collaborator failed.
C2_BreakGlassEveryResult ==
    \A i \in DOMAIN frame :
        (Returned(i) /\ BreakGlassed(i) /\ AgentCalled(i) /\ CollaboratorsHeld(i)) =>
            /\ AgentReturned(i) => ResultOf(i).traces = TracesReturned(i)
            /\ ResultOf(i).attestation # None => HasBreakGlassNote(ResultOf(i).attestation)

\* C2 amended: every success-status result run returns for a black_box
\* policy and a request id in break_glass_request_ids carries the traces the
\* agent returned, and its attestation, when not absent, has
\* break_glass.enabled = true.
C2_BreakGlassExemption ==
    \A i \in DOMAIN frame :
        (Returned(i) /\ BreakGlassed(i) /\ ResultOf(i).status = "success") =>
            /\ AgentReturned(i)
            /\ ResultOf(i).traces = TracesReturned(i)
            /\ ResultOf(i).attestation # None => HasBreakGlassNote(ResultOf(i).attestation)

\* a break-glass success result with the agent's traces and an annotated attestation
C2_Witness ==
    \E i \in DOMAIN frame :
        /\ Returned(i) /\ BreakGlassed(i) /\ ResultOf(i).status = "success"
        /\ TracesReturned(i) # None
        /\ ResultOf(i).traces = TracesReturned(i)
        /\ HasBreakGlassNote(ResultOf(i).attestation)

----------------------------------------------------------------------------
(* C3: hash gating *)

\* C3 as stated: in every result run returns, of either status, input_hash
\* is present exactly when policy.keep_hashes is true, and so is output_hash.
\* Taken where the agent was called and no other collaborator failed.
C3_HashesIffKeepHashesEveryResult ==
    \A i \in DOMAIN frame :
        (Returned(i) /\ AgentCalled(i) /\ CollaboratorsHeld(i)) =>
            /\ (ResultOf(i).input_hash # None) <=> policy.keep_hashes
            /\ (ResultOf(i).output_hash # None) <=> policy.keep_hashes

\* C3 amended: in every success-status result input_hash is present exactly
\* when policy.keep_hashes is true, and so is output_hash; in every
\* error-status result both are absent.
C3_HashGating ==
    \A i \in DOMAIN frame :
        Returned(i) =>
            IF ResultOf(i).status = "success"
            THEN /\ (ResultOf(i).input_hash # None) <=> policy.keep_hashes
                 /\ (ResultOf(i).output_hash # None) <=> policy.keep_hashes
            ELSE /\ ResultOf(i).input_hash = None
                 /\ ResultOf(i).output_hash = None

\* a success result under keep_hashes with both digests
C3_Witness ==
    \E i \in DOMAIN frame :
        /\ Returned(i) /\ policy.keep_hashes /\ ResultOf(i).status = "success"
        /\ ResultOf(i).input_hash.ty = "sha256"
        /\ ResultOf(i).output_hash.ty = "sha256"

----------------------------------------------------------------------------
(* C4: error containment *)

\* C4 as stated: whenever a call of the agent raised (any exception type, the
\* first call or the task-only retry), run returns a result with status
\* "error" and a latency_ms, and no exception reaches the caller.  Taken
\* where no other collaborator failed.
C4_AnyAgentExceptionContained ==
    \A i \in DOMAIN frame :
        (Done(i) /\ AgentRaised(i) /\ CollaboratorsHeld(i)) =>
            /\ Returned(i)
            /\ ResultOf(i).status = "error"
            /\ ResultOf(i).latency_ms \in Nat

\* the agent's call ended in an exception deriving from Exception that the
\* retry does not answer: the first call raised other than TypeError, or the
\* retry raised
AgentFailed(i) ==
    /\ AgentCalled(i)
    /\ LastAgentCall(i).did.kind = "raise"
    /\ LastAgentCall(i).did.exc.type \in ExceptionSubclasses
    /\ LastAgentCall(i).retry \/ LastAgentCall(i).did.exc.type # "TypeError"

\* C4 amended: whenever the agent's call ends in an exception deriving from
\* Exception that the retry does not answer (the first call raises other than
\* TypeError, or the retry raises), run catches it: the result run returns
\* has status "error" and a latency_ms, and the only exception that can still
\* reach the caller is a failure of the error path's own store_outcome or
\* record_request call, never the agent's.
C4_ErrorContainment ==
    \A i \in DOMAIN frame :
        (Done(i) /\ AgentFailed(i)) =>
            /\ Returned(i) =>
                 /\ ResultOf(i).status = "error"
                 /\ ResultOf(i).latency_ms \in Nat
            /\ Escaped(i) =>
                 /\ outcome[i].exc \in {StorageDown, MetricsDown}
                 /\ StoreRaised(i) \/ MetricsRaised(i)

\* the retry raised and run returned an error-status result
C4_Witness ==
    \E i \in DOMAIN frame :
        /\ Done(i) /\ AgentFailed(i) /\ LastAgentCall(i).retry
        /\ Returned(i)
        /\ ResultOf(i).status = "error"
        /\ ResultOf(i).result = Dict("error" :> Str(LastAgentCall(i).did.exc.msg))

----------------------------------------------------------------------------
(* C5: no exception escapes run *)

\* C5: no exception ever leaves run: whichever of the redactor, the agent,
\* store_outcome, a Metrics call or the attestation generator raises, run
\* ends by returning a result.
C5_NoExceptionEscapes ==
    \A i \in DOMAIN frame : Done(i) => Returned(i)

----------------------------------------------------------------------------
(* C6: no PII on the failure path *)

Words(x) == Range(PyStr(x))

\* x shows a raw PII word of invocation i's payload
LeaksPayload(i, x) == \E w \in Words(x) : w \in PIIWords /\ w \in Words(frame[i].payload)

\* C6: on the failure path neither the record handed to store_outcome nor
\* the returned result (its result and attestation fields) shows raw PII of
\* the payload, even when the agent's failure description quotes the payload.
\* Taken where no collaborator other than the agent failed.
C6_NoPIIOnFailurePath ==
    \A i \in DOMAIN frame :
        CollaboratorsHeld(i) =>
            /\ \A k \in CallsOf(store_calls, i) :
                   store_calls[k].record.status = "error" =>
                       ~LeaksPayload(i, store_calls[k].record.error)
            /\ (Returned(i) /\ ResultOf(i).status = "error") =>
                   /\ ~LeaksPayload(i, ResultOf(i).result)
                   /\ ~LeaksPayload(i, ResultOf(i).attestation)

----------------------------------------------------------------------------
(* C7: the agent receives the original input *)

\* C7: the first call hands the agent the original task, payload and extra
\* parameters, every call hands it the original task, and the value hashed
\* into input_hash is the redactor's output for {task, payload}, which shows
\* no raw PII.
C7_AgentGetsOriginalInput ==
    /\ \A k \in DOMAIN agent_calls :
           LET c == agent_calls[k]
               f == frame[c.inv]
           IN  /\ c.args.task = f.task
               /\ ~c.retry => c.args.kwargs = Dict(f.payload.v @@ f.kwargs)
    /\ \A i \in DOMAIN frame :
           (Started(i) /\ frame[i].input_hash # None) =>
               /\ frame[i].input_hash =
                      Sha256Hex(PyStr(redact(Dict("task" :> Str(frame[i].task) @@
                                                  "payload" :> frame[i].payload))))
               /\ Range(frame[i].input_hash.v) \cap PIIWords = {}

\* the agent was handed raw PII in the task and in the payload while the
\* hashed input shows none
C7_Witness ==
    \E k \in DOMAIN agent_calls :
        LET c == agent_calls[k]
        IN  /\ ~c.retry
            /\ Range(c.args.task) \cap PIIWords # {}
            /\ HasPII(c.args.kwargs)
            /\ frame[c.inv].input_hash.ty = "sha256"
            /\ Range(frame[c.inv].input_hash.v) \cap PIIWords = {}
            /\ "[EMAIL_REDACTED]" \in Range(frame[c.inv].input_hash.v)

----------------------------------------------------------------------------
(* C8: a Metrics failure never fails the request *)

\* C8: when a Metrics call raises while the agent and Storage (and the
\* redactor and the attestation generator) succeed, run still returns a
\* success-status result with the agent's result, and no exception reaches
\* the caller.
C8_MetricsFailureHarmless ==
    \A i \in DOMAIN frame :
        (/\ Done(i) /\ MetricsRaised(i)
         /\ ~AgentRaised(i) /\ ~StoreRaised(i) /\ ~AttestRaised(i)
         /\ frame[i].e \in {NoExc, MetricsDown}) =>
            /\ Returned(i)
            /\ ResultOf(i).status = "success"

----------------------------------------------------------------------------
(* C9: the outcome record *)

OutcomeFields ==
    {"request_id", "input_hash", "output_hash", "status", "latency_ms", "cost_cents",
     "created_at", "attestation"}

\* C9: every record handed to store_outcome has the fields request_id,
\* input_hash, output_hash, status, latency_ms, cost_cents, created_at and
\* attestation, and its attestation is the attestation of the result returned
\* for the invocation.  Taken where no collaborator failed.
C9_OutcomeRecordComplete ==
    \A k \in DOMAIN store_calls :
        LET c == store_calls[k]
        IN  CollaboratorsHeld(c.inv) =>
                /\ OutcomeFields \subseteq DOMAIN c.record
                /\ Returned(c.inv) => c.record.attestation = ResultOf(c.inv).attestation

----------------------------------------------------------------------------
(* C10: one store_outcome per invocation *)

\* C10: every invocation calls store_outcome exactly once (never twice, and
\* once when it returns), also when record_request or the attestation
\* generator raises after the success-path write; a success record is never
\* followed by an error record of the same invocation.  Taken where
\* store_outcome itself never fails.
C10_StoreOutcomeOnce ==
    \A i \in DOMAIN frame :
        ~StoreRaised(i) =>
            /\ StoreCount(i) <= 1
            /\ Returned(i) => StoreCount(i) = 1
            /\ \A j, k \in CallsOf(store_calls, i) :
                   (j < k /\ store_calls[j].record.status = "success") =>
                       store_calls[k].record.status # "error"

----------------------------------------------------------------------------
(* C12: output_hash is taken before the result is redacted *)

\* what line 98 made of the value the agent returned to invocation i
ParsedResult(i) == _parse_agent_result(LastAgentCall(i).did.value).result

\* C12: on the success path with keep_hashes true and the enhanced redactor
\* enabled, output_hash is the hash of the agent's result as it was before
\* redaction and the returned result is the redactor's output for it: where
\* redaction changes the result, output_hash is not the hash of the returned
\* result.
C12_OutputHashBeforeRedaction ==
    \A i \in DOMAIN frame :
        (Returned(i) /\ ResultOf(i).status = "success"
            /\ policy.keep_hashes /\ use_enhanced_pii) =>
            /\ ResultOf(i).output_hash = _compute_hash(ParsedResult(i))
            /\ ResultOf(i).result = redact(ParsedResult(i))
            /\ (redact(ParsedResult(i)) # ParsedResult(i)) =>
                   ResultOf(i).output_hash # _compute_hash(ResultOf(i).result)

\* a success result whose redaction replaced an e-mail address
C12_Witness ==
    \E i \in DOMAIN frame :
        /\ Returned(i) /\ ResultOf(i).status = "success"
        /\ policy.keep_hashes /\ use_enhanced_pii
        /\ HasPII(ParsedResult(i))
        /\ ~HasPII(ResultOf(i).result)
        /\ ResultOf(i).output_hash = _compute_hash(ParsedResult(i))

----------------------------------------------------------------------------
(* C13: classification of the agent's return value *)

HasResultKey(a) == IsDict(a) /\ "result" \in DOMAIN a.v

\* the classification the claim describes
Classified(a) ==
    IF HasResultKey(a)
    THEN [result |-> a.v["result"],
          traces |-> IF "traces" \in DOMAIN a.v THEN a.v["traces"] ELSE None,
          cost_cents |-> IF "cost_cents" \in DOMAIN a.v THEN a.v["cost_cents"] ELSE Num(0)]
    ELSE [result |-> a, traces |-> None, cost_cents |-> Num(0)]

\* C13: from a mapping with a result key run takes result, traces (absent when
\* missing) and cost_cents (0 when missing); of every other return value, a
\* mapping without a result key that has traces or cost_cents keys included,
\* the whole value is the result, traces are absent and cost_cents is 0.
\* Read off run()'s locals after line 98, the traces where line 100 did not
\* strip them and the result before or after the redaction of line 110.
C13_Classification ==
    \A i \in DOMAIN frame :
        LET f == frame[i]
            want == Classified(f.agent_result)
        IN  f.agent_result # None =>
                /\ f.cost_cents = want.cost_cents
                /\ f.result \in {want.result, redact(want.result)}
                /\ ~StripsTraces(f.is_break_glass) => f.traces = want.traces

----------------------------------------------------------------------------
(* C14: the agent is called at most twice, the retry answers a rejected      *)
(* parameter shape only                                                      *)

\* call k of the agent ended in an exception of the agent's own execution
RaisedInExecution(k) ==
    agent_calls[k].did.kind = "raise" /\ agent_calls[k].did.exc # ShapeRejected

\* C14: within one invocation of run the agent is called at most twice; the
\* second, task-only call happens only after the first call was rejected for
\* its parameter shape; an exception raised by the agent's own execution is
\* never followed by a second call of the agent and ends in an error-status
\* result.  The last part taken where run can convert at all: the exception
\* derives from Exception and no other collaborator failed.
C14_RetryOnlyOnShapeRejection ==
    \A i \in DOMAIN frame :
        LET ks == CallsOf(agent_calls, i)
        IN  /\ Cardinality(ks) <= 2
            /\ \A k \in ks :
                   agent_calls[k].retry =>
                       /\ agent_calls[k].args = RetryCallArgs(frame[i])
                       /\ \E j \in ks : /\ j < k
                                        /\ ~agent_calls[j].retry
                                        /\ agent_calls[j].did.exc = ShapeRejected
            /\ \A k \in ks :
                   RaisedInExecution(k) =>
                       /\ \A j \in ks : j <= k
                       /\ (/\ Done(i) /\ CollaboratorsHeld(i)
                           /\ agent_calls[k].did.exc.type \in ExceptionSubclasses) =>
                              (Returned(i) /\ ResultOf(i).status = "error")

----------------------------------------------------------------------------
(* C15: the failure path *)

\* the exception a step of invocation i raised: the one that left run(), or
\* the one the handler of line 152 holds
FailureOf(i) == IF Escaped(i) THEN outcome[i].exc ELSE frame[i].e

\* a step inside run raised, Storage and Metrics having succeeded throughout
OnFailurePath(i) ==
    /\ Done(i)
    /\ FailureOf(i) # NoExc
    /\ ~StoreRaised(i) /\ ~MetricsRaised(i)

ErrorRecords(i) == {k \in CallsOf(store_calls, i) : store_calls[k].record.status = "error"}

ErrorRequests(i) ==
    {k \in CallsOf(metrics_calls, i) :
        /\ metrics_calls[k].op = "record_request"
        /\ metrics_calls[k].args[1] = Str(<<"error">>)}

\* what the claim says of a failure described by msg
FailureOutcome(i, msg) ==
    /\ Cardinality(ErrorRecords(i)) = 1
    /\ \A k \in ErrorRecords(i) :
           /\ store_calls[k].record.error = Str(msg)
           /\ store_calls[k].record.request_id = frame[i].request_id
    /\ Cardinality(ErrorRequests(i)) = 1
    /\ \A k \in ErrorRequests(i) : metrics_calls[k].args[3] = Num(0)
    /\ Returned(i)
    /\ \E lat \in Latencies :
           ResultOf(i) = BlackBoxResult(frame[i].request_id, "error", Dict("error" :> Str(msg)),
                                        None, lat, Num(0), None, None, Dict("error" :> Str(msg)))

----------------------------------------------------------------------------
(* C16: when the attestation generator is called *)

\* invocation i got to line 126: store_outcome and record_request of the
\* success path have both returned
ReachedAttestation(i) ==
    \E k \in CallsOf(metrics_calls, i) :
        /\ metrics_calls[k].op = "record_request"
        /\ metrics_calls[k].args[1] = Str(<<"success">>)
        /\ ~metrics_calls[k].raised

AnyAttestationFlag == policy.include_code_sha \/ policy.include_policy_hash

\* C16: the attestation generator is called in an invocation exactly when
\* the invocation reaches the attestation step and include_code_sha or
\* include_policy_hash is true (and then once, with the invocation's request
\* id and hashes); with both flags false it is never called; a success-status
\* result has an attestation exactly when at least one flag is true.
C16_AttestationGating ==
    \A i \in DOMAIN frame :
        /\ (CallsOf(attest_calls, i) # {}) <=> (ReachedAttestation(i) /\ AnyAttestationFlag)
        /\ Cardinality(CallsOf(attest_calls, i)) <= 1
        /\ \A k \in CallsOf(attest_calls, i) :
               /\ attest_calls[k].request_id = frame[i].request_id
               /\ attest_calls[k].input_hash = frame[i].input_hash
               /\ attest_calls[k].output_hash = frame[i].output_hash
        /\ (Returned(i) /\ ResultOf(i).status = "success") =>
               ((ResultOf(i).attestation # None) <=> AnyAttestationFlag)

\* a success result with an attestation under include_policy_hash alone
C16_Witness ==
    \E i \in DOMAIN frame :
        /\ Returned(i) /\ ResultOf(i).status = "success"
        /\ ~policy.include_code_sha /\ policy.include_policy_hash
        /\ CallsOf(attest_calls, i) # {}
        /\ ResultOf(i).attestation # None

----------------------------------------------------------------------------
(* C17: record_break_glass *)

Listed(i) == frame[i].request_id \in policy.break_glass_request_ids

\* C17: record_break_glass is called exactly once in an invocation whose
\* request id is in break_glass_request_ids and never in any other, whatever
\* black_box is and whatever the agent does later; the call is made before the
\* agent is called: it is there while the first agent call is awaited, and it
\* is the invocation's first Metrics call.
C17_BreakGlassMetric ==
    \A i \in DOMAIN frame :
        Started(i) =>
            /\ MetricsCount(i, "record_break_glass") = (IF Listed(i) THEN 1 ELSE 0)
            /\ \A k \in CallsOf(metrics_calls, i) :
                   metrics_calls[k].op = "record_break_glass" =>
                       \A j \in CallsOf(metrics_calls, i) : k <= j

\* a listed request under a policy without black_box, while its first agent
\* call is awaited and after its agent raised
C17_Witness ==
    \E i \in DOMAIN frame :
        /\ Listed(i) /\ ~policy.black_box
        /\ MetricsCount(i, "record_break_glass") = 1
        /\ \/ frame[i].pc = "await_agent" /\ ~AgentCalled(i)
           \/ Done(i) /\ AgentRaised(i) /\ ~AgentReturned(i)

----------------------------------------------------------------------------
(* C18: an agent without a run operation *)

\* C18: when the wrapped agent has no run operation, run never calls the agent,
\* neither at first nor as a retry, and the invocation ends in the
\* configuration failure: an error-status result and an error record that say
\* the agent has no run() method.  The outcome taken where the missing
\* operation is the invocation's only failure: no collaborator raised.
C18_NoRunOperation ==
    \A i \in DOMAIN frame :
        ~agent.has_run =>
            /\ CallsOf(agent_calls, i) = {}
            /\ frame[i].pc \notin {"await_agent", "await_retry", "await_store_success"}
            /\ (Done(i) /\ CollaboratorsHeld(i)) =>
                   FailureOutcome(i, <<"Agent", "has", "no", "run()", "method">>)

\* run returned the configuration failure for an agent without run
C18_Witness ==
    \E i \in DOMAIN frame :
        /\ ~agent.has_run
        /\ Returned(i) /\ ResultOf(i).status = "error"
        /\ ResultOf(i).result = Dict("error" :> Str(<<"Agent", "has", "no", "run()", "method">>))
        /\ StoreCount(i) = 1

----------------------------------------------------------------------------
(* C19: record_request, once, after the outcome was stored *)

RequestCalls(i) == {k \in CallsOf(metrics_calls, i) : metrics_calls[k].op = "record_request"}

\* the last store_outcome call of invocation i (one exists)
LastStore(i) ==
    store_calls[CHOOSE k \in CallsOf(store_calls, i) : \A j \in CallsOf(store_calls, i) : j <= k]

\* C19: in every invocation of run that returns, record_request was called
\* exactly once, after store_outcome completed, and with the status of the
\* returned result, which is also the status of the last outcome record
\* persisted for the invocation.
C19_RecordRequestOnce ==
    \A i \in DOMAIN frame :
        Returned(i) =>
            /\ Cardinality(RequestCalls(i)) = 1
            /\ CallsOf(store_calls, i) # {}
            /\ ~LastStore(i).raised
            /\ \A k \in RequestCalls(i) :
                   /\ metrics_calls[k].args[1] = Str(<<ResultOf(i).status>>)
                   /\ metrics_calls[k].args[1] = Str(<<LastStore(i).record.status>>)

----------------------------------------------------------------------------
(* C11: concurrent invocations are independent *)

\* what invocation i was called with and what its own agent handed back
OwnInputHash(i) == _compute_hash(redact(RedactorInput(frame[i].task, frame[i].payload)))

OwnParsed(i) == _parse_agent_result(LastAgentCall(i).did.value)

OwnStatus(i) == IF AgentReturned(i) THEN "success" ELSE "error"

\* C11: of two invocations of run on one wrapper with distinct request ids,
\* interleaved at the awaits of the agent call and of store_outcome, every
\* stored record and every returned result holds the request id, traces,
\* hashes, cost and status of its own invocation: each is what the
\* invocation's own arguments and own agent call give, whatever the other
\* invocation did in between.
C11_InvocationsIndependent ==
    \A i \in DOMAIN frame :
        /\ \A k \in CallsOf(store_calls, i) :
               LET rec == store_calls[k].record
               IN  /\ rec.request_id = frame[i].request_id
                   /\ \A j \in DOMAIN frame \ {i} : rec.request_id # frame[j].request_id
                   /\ rec.status = OwnStatus(i)
                   /\ rec.status = "success" =>
                          /\ rec.input_hash = OwnInputHash(i)
                          /\ rec.output_hash = _compute_hash(OwnParsed(i).result)
                          /\ rec.cost_cents = OwnParsed(i).cost_cents
        /\ Returned(i) =>
               LET r == ResultOf(i)
               IN  /\ r.request_id = frame[i].request_id
                   /\ r.status = OwnStatus(i)
                   /\ r.status = "success" =>
                          /\ r.input_hash = OwnInputHash(i)
                          /\ r.output_hash = _compute_hash(OwnParsed(i).result)
                          /\ r.cost_cents = OwnParsed(i).cost_cents
                          /\ r.traces = IF BlackBoxed(i) THEN None ELSE OwnParsed(i).traces
                          /\ r.result = redact(OwnParsed(i).result)
                          /\ r.attestation.v["request_id"] = Str(<<frame[i].request_id>>)
                   /\ r.status = "error" =>
                          r.result = Dict("error" :> Str(LastAgentCall(i).did.exc.msg))

\* both invocations returned success with different hashes, costs and traces,
\* the second to call the agent being the first to store its outcome
C11_Witness ==
    /\ DOMAIN frame = PairInvocations
    /\ \A i \in DOMAIN frame : Returned(i) /\ ResultOf(i).status = "success"
    /\ ResultOf("runA").input_hash # ResultOf("runB").input_hash
    /\ ResultOf("runA").output_hash # ResultOf("runB").output_hash
    /\ ResultOf("runA").cost_cents # ResultOf("runB").cost_cents
    /\ ResultOf("runA").traces # None
    /\ Len(agent_calls) = 2 /\ agent_calls[1].inv = "runA" /\ agent_calls[2].inv = "runB"
    /\ store_calls[1].inv = "runB" /\ store_calls[2].inv = "runA"

----------------------------------------------------------------------------
(* C20: the hashes are stable *)

SucceededBoth(i, j) ==
    /\ Returned(i) /\ ResultOf(i).status = "success"
    /\ Returned(j) /\ ResultOf(j).status = "success"

\* C20: with keep_hashes true, two invocations of run with the same task and
\* the same payload return the same input_hash, whatever their request ids,
\* their extra keyword parameters and the values their agents return; two
\* invocations whose agents return the same result return the same
\* output_hash.  "The same" as Python's == has it; of the results that carry
\* hashes, the success-status ones.
C20_HashesStable ==
    \A i, j \in DOMAIN frame :
        (policy.keep_hashes /\ SucceededBoth(i, j)) =>
            /\ (frame[i].task = frame[j].task /\ PyEq(frame[i].payload, frame[j].payload)) =>
                   ResultOf(i).input_hash = ResultOf(j).input_hash
            /\ PyEq(OwnParsed(i).result, OwnParsed(j).result) =>
                   ResultOf(i).output_hash = ResultOf(j).output_hash

====
